---------------------------- MODULE Spec2Model ----------------------------
(***************************************************************************)
(* A model of snowflake_client.client: the SnowflakeClient class (its      *)
(* constructor, connect, disconnect, execute_query, initialize_context and *)
(* the context-manager pair) and create_snowflake_client_from_env.         *)
(*                                                                         *)
(* The driver (snowflake.connector) is an external collaborator.  It is    *)
(* modelled by what the client can observe of it: connect, cursor, execute *)
(* and fetchall either return or raise (chosen by an oracle, failAt); the  *)
(* close of a connection and of a cursor return.  Every driver call and    *)
(* every method entry of one public operation is recorded, in order, in    *)
(* trace.  Log records and prints are not part of the state.               *)
(*                                                                         *)
(* The program is single-threaded and synchronous, so each public          *)
(* operation is one atomic action.                                         *)
(***************************************************************************)
EXTENDS Naturals, Sequences, FiniteSets, TLC

VARIABLES
    client,             \* "none" until a SnowflakeClient object exists, then "live"
    constructed_with,   \* the arguments __init__ was called with
    connection_params,  \* self.connection_params: a mapping field name -> string
    connection,         \* self.connection: NoHandle (None) or a driver handle
    sessions,           \* driver: one record per session ever opened, indexed by handle
    cursors,            \* driver: one record per cursor the last operation opened
    open_cursors,       \* driver: how many cursors were opened and never closed, so far
    trace,              \* the method entries and driver calls of the last operation, in order
    last,               \* the last public operation: its name, inputs and outcome
    scope,              \* "none", or "body" while inside a `with client:` block
    entered             \* the handle opened by the last successful __enter__

vars == <<client, constructed_with, connection_params, connection, sessions,
          cursors, open_cursors, trace, last, scope, entered>>

---------------------------------------------------------------------------
(* Bounds of the model. *)

\* The driver opens at most this many sessions in one behaviour.
MaxSessions == 2

\* At most this many cursors are left open in one behaviour.
MaxOpenCursors == 1

---------------------------------------------------------------------------
(* Python values. *)

\* None, where a string is expected (Optional[str]).
None == "<None>"

\* self.connection = None
NoHandle == 0

\* No exception.
NoError == "<no error>"

\* bool(x) of an Optional[str]: None and the empty string are falsy.
Truthy(x) == x # None /\ x # ""

\* The empty dict.
EmptyDict == [k \in {} |-> ""]

\* An Optional[Dict]: None, or a dict.
NoDict == [some |-> FALSE, val |-> EmptyDict]
SomeDict(d) == [some |-> TRUE, val |-> d]

\* bool(d) of an Optional[Dict]: None and the empty dict are falsy.
TruthyDict(d) == d.some /\ DOMAIN d.val # {}

\* d.get(k, None)
Get(d, k) == IF k \in DOMAIN d THEN d[k] ELSE None

\* d[k] = v
Put(d, k, v) == [x \in DOMAIN d \cup {k} |-> IF x = k THEN v ELSE d[x]]

---------------------------------------------------------------------------
(* The inputs the model draws. *)

OptionalFields == {"warehouse", "database", "schema", "role"}

\* The value a field takes when it is given a non-empty one.
FieldValue ==
    [account |-> "acme", user |-> "alice", password |-> "pw", warehouse |-> "WH",
     database |-> "DB", schema |-> "SC", role |-> "ROLE"]

\* An optional constructor argument: left out (None), the empty string, a value.
OptChoices(f) == {None, "", FieldValue[f]}

\* The environment variable behind each field create_snowflake_client_from_env reads.
EnvVar ==
    [account |-> "SNOWFLAKE_ACCOUNT", user |-> "SNOWFLAKE_USER",
     password |-> "SNOWFLAKE_PASSWORD", warehouse |-> "SNOWFLAKE_WAREHOUSE",
     role |-> "SNOWFLAKE_ROLE"]

EnvFields == {"account", "user", "password", "warehouse", "role"}
RequiredFields == {"account", "user", "password"}

\* os.environ: every variable is unset (absent), set to the empty string, or set
\* to the value of its field.
Environments ==
    {[name \in {EnvVar[f] : f \in S} |->
         IF name \in {EnvVar[f] : f \in E}
         THEN ""
         ELSE FieldValue[CHOOSE f \in EnvFields : EnvVar[f] = name]] :
     <<S, E>> \in {<<S, E>> \in (SUBSET EnvFields) \X (SUBSET EnvFields) : E \subseteq S}}

\* os.getenv(name)
getenv(env, name) == IF name \in DOMAIN env THEN env[name] ELSE None

Queries == {"SELECT A"}

\* The params argument of execute_query: None or a mapping.
ParamChoices == {NoDict, SomeDict([id |-> "1"])}

\* The init argument of execute_query: None, the empty dict, or a dict with the
\* keys database and schema, one of them or both, of which one may be empty.
InitChoices ==
    {NoDict, SomeDict(EmptyDict),
     SomeDict([database |-> "D"]), SomeDict([schema |-> "S"]),
     SomeDict([database |-> "D", schema |-> "S"]),
     SomeDict([database |-> "", schema |-> "S"]),
     SomeDict([database |-> "D", schema |-> ""])}

\* An argument of initialize_context: left out (None), the empty string, a name.
ContextChoices(name) == {None, "", name}

\* The database_name argument of create_database.
DatabaseNames == {"DB"}

\* What the driver's fetchall returns.
Rows == <<[A |-> 1], [A |-> 2]>>

---------------------------------------------------------------------------
(* Construction. *)

\* An __init__ that stores every optional argument, given or not.
__init___storing_all(account, user, password, warehouse, database, schema, role) ==
    [connection_params |->
        [account |-> account, user |-> user, password |-> password,
         warehouse |-> warehouse, database |-> database, schema |-> schema,
         role |-> role],
     connection |-> NoHandle]

\* SnowflakeClient.__init__: the fields of the new object.
__init__(account, user, password, warehouse, database, schema, role) ==
    LET p0 == [account |-> account, user |-> user, password |-> password]
        p1 == IF Truthy(warehouse) THEN Put(p0, "warehouse", warehouse) ELSE p0
        p2 == IF Truthy(database) THEN Put(p1, "database", database) ELSE p1
        p3 == IF Truthy(schema) THEN Put(p2, "schema", schema) ELSE p2
        p4 == IF Truthy(role) THEN Put(p3, "role", role) ELSE p3
    IN  [connection_params |-> p4, connection |-> NoHandle]

\* The checks of create_snowflake_client_from_env, the one of the password left out.
EnvError_without_password(env) ==
    IF ~Truthy(getenv(env, "SNOWFLAKE_ACCOUNT")) THEN "SNOWFLAKE_ACCOUNT is not set"
    ELSE IF ~Truthy(getenv(env, "SNOWFLAKE_USER")) THEN "SNOWFLAKE_USER is not set"
    ELSE NoError

\* The checks of create_snowflake_client_from_env: the message of the exception
\* it raises, or NoError.
EnvError(env) ==
    IF ~Truthy(getenv(env, "SNOWFLAKE_ACCOUNT")) THEN "SNOWFLAKE_ACCOUNT is not set"
    ELSE IF ~Truthy(getenv(env, "SNOWFLAKE_USER")) THEN "SNOWFLAKE_USER is not set"
    ELSE IF ~Truthy(getenv(env, "SNOWFLAKE_PASSWORD")) THEN "SNOWFLAKE_PASSWORD is not set"
    ELSE NoError

\* create_snowflake_client_from_env: the client it returns when no check fails.
\* database and schema are not passed, so they take their default, None.
create_snowflake_client_from_env(env) ==
    __init__(getenv(env, "SNOWFLAKE_ACCOUNT"), getenv(env, "SNOWFLAKE_USER"),
             getenv(env, "SNOWFLAKE_PASSWORD"), getenv(env, "SNOWFLAKE_WAREHOUSE"),
             None, None, getenv(env, "SNOWFLAKE_ROLE"))

---------------------------------------------------------------------------
(* The methods, as functions on a world w: the client's fields, the        *)
(* driver's sessions and cursors, the trace, the pending exception and the *)
(* oracle (the failAt-th driver call that can raise, raises).              *)

World(failAt) ==
    [connection_params |-> connection_params, connection |-> connection,
     sessions |-> sessions, cursors |-> << >>, trace |-> << >>,
     error |-> NoError, result |-> << >>, n |-> 0, failAt |-> failAt]

\* One entry of the trace.
Event(call, handle, cursor, text, withParams, args, ok) ==
    [call |-> call, handle |-> handle, cursor |-> cursor, text |-> text,
     withParams |-> withParams, args |-> args, ok |-> ok]

\* The entry of a method of the client in the trace.
Called(w, method) ==
    [w EXCEPT !.trace =
        Append(@, Event(method, w.connection, 0, "", FALSE, EmptyDict, TRUE))]

\* A driver call that can raise: does this one?
Fails(w) == w.n + 1 = w.failAt

\* The exception a driver call raises.
DriverError(call) == "driver error: " \o call

\* snowflake.connector.connect(**params)
DriverConnect(w, params) ==
    IF Fails(w)
    THEN [w EXCEPT !.n = @ + 1,
                   !.error = DriverError("connect"),
                   !.trace = Append(@, Event("connect", NoHandle, 0, "", TRUE, params, FALSE))]
    ELSE LET h == Len(w.sessions) + 1
         IN  [w EXCEPT !.n = @ + 1,
                       !.sessions = Append(@, [params |-> params, closes |-> 0]),
                       !.trace = Append(@, Event("connect", h, 0, "", TRUE, params, TRUE))]

\* The handle DriverConnect returned.
Returned(w) == Len(w.sessions)

\* A connect that drops the stored handle when the driver raises.
connect_clearing(w) ==
    LET w1 == DriverConnect(Called(w, "self.connect"), w.connection_params)
    IN  IF w1.error # NoError
        THEN [w1 EXCEPT !.connection = NoHandle]
        ELSE [w1 EXCEPT !.connection = Returned(w1)]

\* SnowflakeClient.connect: the assignment to self.connection happens only when
\* the driver returns; an exception is logged and re-raised.
connect(w) ==
    LET w1 == DriverConnect(Called(w, "self.connect"), w.connection_params)
    IN  IF w1.error # NoError
        THEN w1
        ELSE [w1 EXCEPT !.connection = Returned(w1)]

\* connection.close()
DriverClose(w, h) ==
    IF Fails(w)
    THEN [w EXCEPT !.n = @ + 1,
                   !.error = DriverError("close"),
                   !.trace = Append(@, Event("close", h, 0, "", FALSE, EmptyDict, FALSE))]
    ELSE [w EXCEPT !.n = @ + 1,
                   !.sessions[h].closes = @ + 1,
                   !.trace = Append(@, Event("close", h, 0, "", FALSE, EmptyDict, TRUE))]

\* A disconnect that closes the handle and keeps the reference to it.
disconnect_keeping(w) ==
    LET w1 == Called(w, "self.disconnect")
    IN  IF w1.connection # NoHandle
        THEN DriverClose(w1, w1.connection)
        ELSE w1

\* SnowflakeClient.disconnect: the reference is cleared after close() returned;
\* nothing catches an exception of close(), so it leaves the reference stored.
disconnect(w) ==
    LET w1 == Called(w, "self.disconnect")
        w2 == DriverClose(w1, w1.connection)
    IN  IF w1.connection = NoHandle THEN w1
        ELSE IF w2.error # NoError THEN w2
        ELSE [w2 EXCEPT !.connection = NoHandle]

\* connection.cursor(DictCursor)
DriverCursor(w, h) ==
    IF Fails(w)
    THEN [w EXCEPT !.n = @ + 1,
                   !.error = DriverError("cursor"),
                   !.trace = Append(@, Event("cursor", h, 0, "", FALSE, EmptyDict, FALSE))]
    ELSE LET c == Len(w.cursors) + 1
         IN  [w EXCEPT !.n = @ + 1,
                       !.cursors = Append(@, [handle |-> h, closes |-> 0]),
                       !.trace = Append(@, Event("cursor", h, c, "", FALSE, EmptyDict, TRUE))]

\* The cursor DriverCursor returned.
Opened(w) == Len(w.cursors)

\* cursor.execute(query, params) when withParams, cursor.execute(query) otherwise
DriverExecute(w, c, query, withParams, args) ==
    LET ok == ~Fails(w)
    IN  [w EXCEPT !.n = @ + 1,
                  !.error = IF ok THEN @ ELSE DriverError("execute"),
                  !.trace = Append(@, Event("execute", w.cursors[c].handle, c, query,
                                            withParams, args, ok))]

\* cursor.fetchall()
DriverFetchall(w, c) ==
    LET ok == ~Fails(w)
    IN  [w EXCEPT !.n = @ + 1,
                  !.error = IF ok THEN @ ELSE DriverError("fetchall"),
                  !.result = IF ok THEN Rows ELSE @,
                  !.trace = Append(@, Event("fetchall", w.cursors[c].handle, c, "",
                                            FALSE, EmptyDict, ok))]

\* cursor.close()
DriverCursorClose(w, c) ==
    IF Fails(w)
    THEN [w EXCEPT !.n = @ + 1,
                   !.error = DriverError("cursor.close"),
                   !.trace = Append(@, Event("cursor.close", w.cursors[c].handle, c, "",
                                             FALSE, EmptyDict, FALSE))]
    ELSE [w EXCEPT !.n = @ + 1,
                   !.cursors[c].closes = @ + 1,
                   !.trace = Append(@, Event("cursor.close", w.cursors[c].handle, c, "",
                                             FALSE, EmptyDict, TRUE))]

\* The try block of execute_query, never closing the cursor.
Statement_leaking(w, query, params) ==
    IF w.connection = NoHandle
    THEN [w EXCEPT !.error = "No connection to Snowflake"]
    ELSE LET w1 == DriverCursor(w, w.connection)
             c  == Opened(w1)
             w2 == IF TruthyDict(params)
                   THEN DriverExecute(w1, c, query, TRUE, params.val)
                   ELSE DriverExecute(w1, c, query, FALSE, EmptyDict)
             w3 == DriverFetchall(w2, c)
         IN  IF w1.error # NoError THEN w1
             ELSE IF w2.error # NoError THEN w2
             ELSE w3

\* The try block of execute_query, with an except clause that disconnects
\* before it re-raises.
Statement_disconnecting(w, query, params) ==
    IF w.connection = NoHandle
    THEN [w EXCEPT !.error = "No connection to Snowflake"]
    ELSE LET w1 == DriverCursor(w, w.connection)
             c  == Opened(w1)
             w2 == IF TruthyDict(params)
                   THEN DriverExecute(w1, c, query, TRUE, params.val)
                   ELSE DriverExecute(w1, c, query, FALSE, EmptyDict)
             w3 == DriverFetchall(w2, c)
             w4 == DriverCursorClose(w3, c)
         IN  IF w1.error # NoError THEN disconnect(w1)
             ELSE IF w2.error # NoError THEN disconnect(w2)
             ELSE IF w3.error # NoError THEN disconnect(w3)
             ELSE w4

\* The try block of execute_query: open a cursor, execute, fetch all rows, close
\* the cursor.  The except clause logs and re-raises, so the first exception
\* ends the block with the cursor left as it is; one raised by the cursor's
\* close() comes after the rows were fetched, and they are not returned.
Statement(w, query, params) ==
    IF w.connection = NoHandle
    THEN [w EXCEPT !.error = "No connection to Snowflake"]
    ELSE LET w1 == DriverCursor(w, w.connection)
             c  == Opened(w1)
             w2 == IF TruthyDict(params)
                   THEN DriverExecute(w1, c, query, TRUE, params.val)
                   ELSE DriverExecute(w1, c, query, FALSE, EmptyDict)
             w3 == DriverFetchall(w2, c)
             w4 == DriverCursorClose(w3, c)
         IN  IF w1.error # NoError THEN w1
             ELSE IF w2.error # NoError THEN w2
             ELSE IF w3.error # NoError THEN w3
             ELSE w4

RECURSIVE execute_query(_, _, _, _)
RECURSIVE initialize_context(_, _, _)

\* An execute_query that connects whether or not a handle is stored.
execute_query_reconnecting(w, query, params, init) ==
    LET w0 == Called(w, "self.execute_query")
        w1 == connect(w0)
        w2 == IF TruthyDict(init)
              THEN initialize_context(w1, Get(init.val, "database"), Get(init.val, "schema"))
              ELSE w1
    IN  IF w1.error # NoError THEN w1
        ELSE IF w2.error # NoError THEN w2
        ELSE Statement(w2, query, params)

\* SnowflakeClient.execute_query
execute_query(w, query, params, init) ==
    LET w0 == Called(w, "self.execute_query")
        w1 == IF w0.connection = NoHandle THEN connect(w0) ELSE w0
        w2 == IF TruthyDict(init)
              THEN initialize_context(w1, Get(init.val, "database"), Get(init.val, "schema"))
              ELSE w1
    IN  IF w1.error # NoError THEN w1
        ELSE IF w2.error # NoError THEN w2
        ELSE Statement(w2, query, params)

\* An initialize_context that sets the schema before the database.
initialize_context_schema_first(w, database, schema) ==
    LET w0 == Called(w, "self.initialize_context")
        w1 == IF Truthy(schema)
              THEN execute_query(w0, "USE SCHEMA " \o schema, NoDict, NoDict)
              ELSE w0
        w2 == IF Truthy(database)
              THEN execute_query(w1, "USE DATABASE " \o database, NoDict, NoDict)
              ELSE w1
    IN  IF w1.error # NoError THEN w1 ELSE w2

\* SnowflakeClient.initialize_context
initialize_context(w, database, schema) ==
    LET w0 == Called(w, "self.initialize_context")
        w1 == IF Truthy(database)
              THEN execute_query(w0, "USE DATABASE " \o database, NoDict, NoDict)
              ELSE w0
        w2 == IF Truthy(schema)
              THEN execute_query(w1, "USE SCHEMA " \o schema, NoDict, NoDict)
              ELSE w1
    IN  IF w1.error # NoError THEN w1 ELSE w2

\* SnowflakeClient.__enter__: connect, then return self.
__enter__(w) == connect(Called(w, "self.__enter__"))

\* SnowflakeClient.__exit__: disconnect, whatever the three arguments are; it
\* returns None, so an exception of the body propagates.
__exit__(w) == disconnect(Called(w, "self.__exit__"))

\* create_database(client, database_name)
create_database(w, database_name) ==
    execute_query(Called(w, "create_database"),
                  "CREATE DATABASE " \o database_name, NoDict, NoDict)

---------------------------------------------------------------------------
(* The state machine: one action per public operation. *)

\* The record of an operation, before its fields are filled in.
NoOperation ==
    [op |-> "", pre |-> NoHandle, error |-> NoError, result |-> << >>,
     query |-> "", params |-> NoDict, init |-> NoDict, database |-> None,
     schema |-> None, env |-> EmptyDict, exc |-> FALSE]

\* The record of a method call on the client that ended in world w.
Outcome(op, w) ==
    [NoOperation EXCEPT !.op = op, !.pre = connection, !.error = w.error,
                        !.result = IF w.error = NoError THEN w.result ELSE << >>]

\* The cursors of world w that are open.
OpenCursors(w) == {c \in 1 .. Len(w.cursors) : w.cursors[c].closes = 0}

\* The client and the driver are left as in world w.
Commit(w) ==
    /\ Len(w.sessions) <= MaxSessions
    /\ open_cursors + Cardinality(OpenCursors(w)) <= MaxOpenCursors
    /\ connection' = w.connection
    /\ sessions' = w.sessions
    /\ cursors' = w.cursors
    /\ open_cursors' = open_cursors + Cardinality(OpenCursors(w))
    /\ trace' = w.trace

\* The driver calls of execute_query(query, params, init) that can raise: those
\* it makes when none raises.  The oracle makes one of them raise, or (0) none.
FailChoices(query, params, init) ==
    0 .. execute_query(World(0), query, params, init).n

\* The same for initialize_context(database, schema).
ContextFailChoices(database, schema) ==
    0 .. initialize_context(World(0), database, schema).n

\* The same for create_database(client, database_name).
DatabaseFailChoices(database_name) ==
    0 .. create_database(World(0), database_name).n

\* The arguments of a call of __init__.
Arguments(account, user, password, warehouse, database, schema, role) ==
    [account |-> account, user |-> user, password |-> password,
     warehouse |-> warehouse, database |-> database, schema |-> schema,
     role |-> role]

\* No client exists yet.
InitConstruct ==
    /\ client = "none"
    /\ constructed_with = EmptyDict
    /\ connection_params = EmptyDict
    /\ connection = NoHandle
    /\ sessions = << >>
    /\ cursors = << >>
    /\ open_cursors = 0
    /\ trace = << >>
    /\ last = NoOperation
    /\ scope = "none"
    /\ entered = NoHandle

\* client = SnowflakeClient(account, user, password, warehouse, database, schema, role)
Construct ==
    /\ client = "none"
    /\ \E warehouse \in OptChoices("warehouse"), database \in OptChoices("database"),
          schema \in OptChoices("schema"), role \in OptChoices("role") :
        LET self == __init__(FieldValue.account, FieldValue.user, FieldValue.password,
                             warehouse, database, schema, role)
        IN  /\ connection_params' = self.connection_params
            /\ connection' = self.connection
            /\ constructed_with' =
                   Arguments(FieldValue.account, FieldValue.user, FieldValue.password,
                             warehouse, database, schema, role)
            /\ last' = [NoOperation EXCEPT !.op = "__init__"]
    /\ client' = "live"
    /\ trace' = << >>
    /\ UNCHANGED <<sessions, cursors, open_cursors, scope, entered>>

\* client = create_snowflake_client_from_env()
CreateFromEnv ==
    /\ client = "none"
    /\ \E env \in Environments :
        LET error == EnvError(env)
            self == create_snowflake_client_from_env(env)
            op == [NoOperation EXCEPT !.op = "create_snowflake_client_from_env",
                                      !.env = env, !.error = error]
        IN  IF error # NoError
            THEN /\ last' = op
                 /\ UNCHANGED <<client, constructed_with, connection_params, connection>>
            ELSE /\ last' = op
                 /\ client' = "live"
                 /\ constructed_with' =
                        Arguments(getenv(env, "SNOWFLAKE_ACCOUNT"),
                                  getenv(env, "SNOWFLAKE_USER"),
                                  getenv(env, "SNOWFLAKE_PASSWORD"),
                                  getenv(env, "SNOWFLAKE_WAREHOUSE"),
                                  None, None, getenv(env, "SNOWFLAKE_ROLE"))
                 /\ connection_params' = self.connection_params
                 /\ connection' = self.connection
    /\ trace' = << >>
    /\ UNCHANGED <<sessions, cursors, open_cursors, scope, entered>>

\* client.connect()
Connect ==
    /\ client = "live"
    /\ \E failAt \in 0 .. 1 :
        LET w == connect(World(failAt))
        IN  /\ Commit(w)
            /\ last' = Outcome("connect", w)
    /\ UNCHANGED <<client, constructed_with, connection_params, scope, entered>>

\* client.disconnect()
Disconnect ==
    /\ client = "live"
    /\ \E failAt \in 0 .. disconnect(World(0)).n :
        LET w == disconnect(World(failAt))
        IN  /\ Commit(w)
            /\ last' = Outcome("disconnect", w)
    /\ UNCHANGED <<client, constructed_with, connection_params, scope, entered>>

\* client.execute_query(query, params, init)
ExecuteQuery ==
    /\ client = "live"
    /\ \E query \in Queries, params \in ParamChoices, init \in InitChoices :
        \E failAt \in FailChoices(query, params, init) :
            LET w == execute_query(World(failAt), query, params, init)
            IN  /\ Commit(w)
                /\ last' = [Outcome("execute_query", w) EXCEPT
                              !.query = query, !.params = params, !.init = init]
    /\ UNCHANGED <<client, constructed_with, connection_params, scope, entered>>

\* client.initialize_context(database, schema)
InitializeContext ==
    /\ client = "live"
    /\ \E database \in ContextChoices("D"), schema \in ContextChoices("S") :
        \E failAt \in ContextFailChoices(database, schema) :
            LET w == initialize_context(World(failAt), database, schema)
            IN  /\ Commit(w)
                /\ last' = [Outcome("initialize_context", w) EXCEPT
                              !.result = << >>,
                              !.database = database, !.schema = schema]
    /\ UNCHANGED <<client, constructed_with, connection_params, scope, entered>>

\* create_database(client, database_name)
CreateDatabase ==
    /\ client = "live"
    /\ \E database_name \in DatabaseNames :
        \E failAt \in DatabaseFailChoices(database_name) :
            LET w == create_database(World(failAt), database_name)
            IN  /\ Commit(w)
                /\ last' = [Outcome("create_database", w) EXCEPT
                              !.result = << >>,
                              !.query = "CREATE DATABASE " \o database_name]
    /\ UNCHANGED <<client, constructed_with, connection_params, scope, entered>>

\* with client: -- the entry.  When __enter__ raises, the block is not entered.
EnterScope ==
    /\ client = "live"
    /\ scope = "none"
    /\ \E failAt \in 0 .. 1 :
        LET w == __enter__(World(failAt))
        IN  /\ Commit(w)
            /\ last' = Outcome("__enter__", w)
            /\ scope' = IF w.error = NoError THEN "body" ELSE "none"
            /\ entered' = IF w.error = NoError THEN w.connection ELSE entered
    /\ UNCHANGED <<client, constructed_with, connection_params>>

\* with client: -- the exit, after the body completed (exc = FALSE) or raised
\* (exc = TRUE).  The block is left also when __exit__ raises.
ExitScope ==
    /\ scope = "body"
    /\ \E exc \in BOOLEAN, failAt \in 0 .. __exit__(World(0)).n :
        LET w == __exit__(World(failAt))
        IN  /\ Commit(w)
            /\ last' = [Outcome("__exit__", w) EXCEPT !.exc = exc]
    /\ scope' = "none"
    /\ UNCHANGED <<client, constructed_with, connection_params, entered>>

\* Construction and connection: how the configuration reaches the driver.
NextConstruct ==
    \/ Construct
    \/ CreateFromEnv
    \/ Connect
    \/ Disconnect

SpecConstruct == InitConstruct /\ [][NextConstruct]_vars

\* A client exists: it was constructed with the required fields and a
\* warehouse, as by SnowflakeClient(account, user, password, warehouse).
Init ==
    /\ client = "live"
    /\ LET self == __init__(FieldValue.account, FieldValue.user, FieldValue.password,
                            FieldValue.warehouse, None, None, None)
       IN  /\ constructed_with =
                  Arguments(FieldValue.account, FieldValue.user, FieldValue.password,
                            FieldValue.warehouse, None, None, None)
           /\ connection_params = self.connection_params
           /\ connection = self.connection
    /\ sessions = << >>
    /\ cursors = << >>
    /\ open_cursors = 0
    /\ trace = << >>
    /\ last = NoOperation
    /\ scope = "none"
    /\ entered = NoHandle

\* The life of one client.
Next ==
    \/ Connect
    \/ Disconnect
    \/ ExecuteQuery
    \/ InitializeContext
    \/ CreateDatabase
    \/ EnterScope
    \/ ExitScope

Spec == Init /\ [][Next]_vars

---------------------------------------------------------------------------
(* What the properties below read off the state. *)

\* The calls of the driver, as opposed to the entries of the client's methods.
DriverOps == {"connect", "cursor", "execute", "fetchall", "cursor.close", "close"}

\* The entries of trace t whose call is in calls, in order.
Only(t, calls) == SelectSeq(t, LAMBDA e : e.call \in calls)

\* The driver calls of trace t, in order.
DriverCalls(t) == Only(t, DriverOps)

\* The texts of the statements sent to the driver in trace t, in order.
Statements(t) ==
    LET sent == Only(t, {"execute"}) IN [i \in 1 .. Len(sent) |-> sent[i].text]

\* The positions of trace t whose call is in calls.
Positions(t, calls) == {i \in 1 .. Len(t) : t[i].call \in calls}

\* The sessions the driver opened and that were not closed.
LiveSessions == {h \in 1 .. Len(sessions) : sessions[h].closes = 0}

\* The last operation raised.
Raised == last.error # NoError

\* s is an initial part of t.
IsPrefix(s, t) == Len(s) <= Len(t) /\ \A i \in 1 .. Len(s) : s[i] = t[i]

\* A USE statement for the database when it is not empty, then one for the
\* schema when it is not empty.
UseStatements(database, schema) ==
    (IF Truthy(database) THEN <<"USE DATABASE " \o database>> ELSE << >>)
    \o (IF Truthy(schema) THEN <<"USE SCHEMA " \o schema>> ELSE << >>)

\* The statements execute_query(query, init) has to send: a USE statement for
\* each key of init whose value is not empty, then the query.
NonEmptyStatements(query, init) ==
    UseStatements(Get(init.val, "database"), Get(init.val, "schema")) \o <<query>>

\* The operations that run statements: execute_query, called directly, by
\* create_database or, for each USE statement, by initialize_context.
QueryOps == {"execute_query", "create_database", "initialize_context"}

\* The statements the last operation has to send when no driver call fails.
ToSend ==
    IF last.op = "initialize_context"
    THEN UseStatements(last.database, last.schema)
    ELSE NonEmptyStatements(last.query, last.init)

---------------------------------------------------------------------------
(* C1: the sessions this client opened and that have not been closed are   *)
(* never more than one, whatever sequence of connect, disconnect,          *)
(* execute_query and scope entries and exits was made; in particular       *)
(* connect on a Connected client leaves no open session behind.            *)
C1_AtMostOneLiveSession == Cardinality(LiveSessions) <= 1

---------------------------------------------------------------------------
(* C2, as claimed: a connect() in which the driver fails leaves the client *)
(* Unconnected, from any state, and the driver's error reaches the caller. *)
C2_FailedConnectLeavesUnconnected ==
    (last.op = "connect" /\ Raised) =>
        /\ connection = NoHandle
        /\ last.error = DriverError("connect")

(* C2, as amended: an operation in which the driver's connect fails leaves *)
(* the stored handle as it was before the operation (an Unconnected client *)
(* stays Unconnected, a Connected client keeps its handle, still open), no *)
(* session is opened, and the driver's error reaches the caller.           *)
C2_FailedConnectKeepsHandle ==
    (\E i \in Positions(trace, {"connect"}) : ~trace[i].ok) =>
        /\ connection = last.pre
        /\ last.pre # NoHandle => sessions[last.pre].closes = 0
        /\ Len(DriverCalls(trace)) = 1
        /\ last.error = DriverError("connect")

\* A connect() that failed on a Connected client.
C2_Witness ==
    /\ last.op = "connect"
    /\ last.error = DriverError("connect")
    /\ last.pre # NoHandle
    /\ connection = last.pre

---------------------------------------------------------------------------
(* C3, as claimed: disconnect() on a Connected client closes the stored    *)
(* handle exactly once and leaves the client Unconnected, the reference    *)
(* cleared; on an Unconnected client it raises nothing, calls no driver    *)
(* operation and changes nothing, so a second disconnect() in a row closes *)
(* nothing more and ends in the state the first one left.                  *)
C3_DisconnectAlwaysClears ==
    [][last'.op = "disconnect" =>
         /\ last'.error = NoError
         /\ connection' = NoHandle
         /\ open_cursors' = open_cursors
         /\ IF connection # NoHandle
            THEN /\ sessions[connection].closes = 0
                 /\ sessions' = [sessions EXCEPT ![connection].closes = 1]
                 /\ Len(DriverCalls(trace')) = 1
                 /\ DriverCalls(trace')[1].call = "close"
                 /\ DriverCalls(trace')[1].handle = connection
            ELSE /\ sessions' = sessions
                 /\ DriverCalls(trace') = << >>]_vars

(* C3, as amended: disconnect() on a Connected client calls close() on the *)
(* stored handle exactly once and makes no other driver call; when close() *)
(* returns, the handle is closed, once, and the client is Unconnected, the *)
(* reference cleared; when close() raises, the error reaches the caller    *)
(* and the client keeps the handle, not closed.  On an Unconnected client  *)
(* disconnect() raises nothing, calls no driver operation and changes      *)
(* nothing, so a disconnect() after one that returned closes nothing more  *)
(* and ends in the state the first one left.                               *)
C3_Disconnect ==
    [][last'.op = "disconnect" =>
         /\ open_cursors' = open_cursors
         /\ IF connection # NoHandle
            THEN /\ sessions[connection].closes = 0
                 /\ Len(DriverCalls(trace')) = 1
                 /\ DriverCalls(trace')[1].call = "close"
                 /\ DriverCalls(trace')[1].handle = connection
                 /\ IF DriverCalls(trace')[1].ok
                    THEN /\ last'.error = NoError
                         /\ connection' = NoHandle
                         /\ sessions' = [sessions EXCEPT ![connection].closes = 1]
                    ELSE /\ last'.error = DriverError("close")
                         /\ connection' = connection
                         /\ sessions' = sessions
            ELSE /\ last'.error = NoError
                 /\ connection' = NoHandle
                 /\ sessions' = sessions
                 /\ DriverCalls(trace') = << >>]_vars

\* A disconnect() that closed the handle the client held.
C3_Witness ==
    /\ last.op = "disconnect"
    /\ last.pre # NoHandle
    /\ connection = NoHandle
    /\ sessions[last.pre].closes = 1
    /\ Len(DriverCalls(trace)) = 1

---------------------------------------------------------------------------
(* C4: entering the scope calls connect and leaves the client Connected;   *)
(* leaving it, after a body that completed or raised, calls disconnect     *)
(* exactly once, after which the handle opened on entry is closed and the  *)
(* client is Unconnected.                                                  *)
C4_ScopeReleasesEnteredHandle ==
    /\ (last.op = "__enter__" /\ ~Raised) =>
          /\ Len(Only(trace, {"self.connect"})) = 1
          /\ connection # NoHandle
          /\ connection = entered
          /\ scope = "body"
    /\ last.op = "__exit__" =>
          /\ Len(Only(trace, {"self.disconnect"})) = 1
          /\ connection = NoHandle
          /\ sessions[entered].closes = 1

---------------------------------------------------------------------------
(* C5: execute_query on an Unconnected client calls the driver's connect   *)
(* exactly once, before any statement is sent, also when init makes it run *)
(* USE statements through nested execute_query calls; on a Connected       *)
(* client it does not call connect.  The same holds of the execute_query   *)
(* calls made by create_database and by initialize_context (which calls it *)
(* only for a non-empty database or schema).                               *)
C5_LazyConnectOnce ==
    (last.op \in QueryOps /\ ToSend # << >>) =>
        LET connects == Positions(trace, {"connect"})
            sent == Positions(trace, {"cursor", "execute", "fetchall"})
        IN  IF last.pre = NoHandle
            THEN /\ Cardinality(connects) = 1
                 /\ Len(Only(trace, {"self.connect"})) = 1
                 /\ \A i \in connects : \A j \in sent : i < j
            ELSE /\ connects = {}
                 /\ Only(trace, {"self.connect"}) = << >>

\* An execute_query with both init keys on an Unconnected client: one connect,
\* then three statements.
C5_Witness ==
    /\ last.op = "execute_query"
    /\ last.pre = NoHandle
    /\ ~Raised
    /\ Len(Only(trace, {"connect"})) = 1
    /\ Len(Statements(trace)) = 3

---------------------------------------------------------------------------
\* The statements the claim lists for execute_query(query, init): a USE
\* statement for each key init has, the database first, then the query.
ClaimedStatements(query, init) ==
    (IF "database" \in DOMAIN init.val
     THEN <<"USE DATABASE " \o init.val["database"]>> ELSE << >>)
    \o (IF "schema" \in DOMAIN init.val
        THEN <<"USE SCHEMA " \o init.val["schema"]>> ELSE << >>)
    \o <<query>>

(* C6, as claimed: an execute_query(query, init) that returns sends the    *)
(* driver USE DATABASE D when init has the key database, then USE SCHEMA S *)
(* when it has the key schema, then the query, and nothing else.           *)
C6_StatementsAsClaimed ==
    (last.op = "execute_query" /\ ~Raised) =>
        Statements(trace) = ClaimedStatements(last.query, last.init)

(* C6, as amended: an execute_query(query, init) that returns sends the    *)
(* driver USE DATABASE D when init gives a non-empty database D, then USE  *)
(* SCHEMA S when it gives a non-empty schema S, then the query, and        *)
(* nothing else; a key that is missing or whose value is empty adds no     *)
(* statement.  One that raises sent an initial part of that list.          *)
C6_StatementOrder ==
    last.op = "execute_query" =>
        IF Raised
        THEN IsPrefix(Statements(trace), NonEmptyStatements(last.query, last.init))
        ELSE Statements(trace) = NonEmptyStatements(last.query, last.init)

\* An execute_query with both keys that sent its three statements.
C6_Witness ==
    /\ last.op = "execute_query"
    /\ ~Raised
    /\ last.init = SomeDict([database |-> "D", schema |-> "S"])
    /\ Statements(trace) = <<"USE DATABASE D", "USE SCHEMA S", "SELECT A">>

---------------------------------------------------------------------------
(* C7: an execute_query that returns has closed, once, every cursor it     *)
(* opened, those of its USE statements included; one whose execute or      *)
(* fetchall raised has not closed the cursor of that call, which stays     *)
(* open.  (One whose cursor close raised does not return: the error        *)
(* reaches the caller, without the rows, and the cursor stays open.)       *)
C7_CursorClosedOnSuccessOnly ==
    last.op \in QueryOps =>
        /\ ~Raised =>
              /\ \A c \in 1 .. Len(cursors) : cursors[c].closes = 1
              /\ Len(Only(trace, {"cursor.close"})) = Len(cursors)
              /\ Len(cursors) = Len(Statements(trace))
        /\ \A i \in Positions(trace, {"execute", "fetchall"}) :
              ~trace[i].ok =>
                  /\ cursors[trace[i].cursor].closes = 0
                  /\ \A j \in Positions(trace, {"cursor.close"}) :
                        trace[j].cursor # trace[i].cursor
                  /\ open_cursors >= 1
        /\ \A i \in Positions(trace, {"cursor.close"}) :
              ~trace[i].ok =>
                  /\ last.error = DriverError("cursor.close")
                  /\ last.result = << >>
                  /\ cursors[trace[i].cursor].closes = 0
                  /\ open_cursors >= 1

\* The fetchall of the second statement raised: the first cursor is closed, the
\* second is open.
C7_Witness ==
    /\ last.op = "execute_query"
    /\ last.error = DriverError("fetchall")
    /\ Len(cursors) = 2
    /\ cursors[1].closes = 1
    /\ cursors[2].closes = 0

---------------------------------------------------------------------------
\* The field's variable is in the environment.
IsSet(env, f) == EnvVar[f] \in DOMAIN env

\* The field's variable is in the environment and not empty.
HasValue(env, f) == IsSet(env, f) /\ env[EnvVar[f]] # ""

(* C8, as claimed: when SNOWFLAKE_ACCOUNT, SNOWFLAKE_USER and              *)
(* SNOWFLAKE_PASSWORD are all set, create_snowflake_client_from_env        *)
(* returns an Unconnected client whose fields are the variables, with the  *)
(* warehouse and the role when set, and calls no driver operation; when    *)
(* exactly one of the three is not set, it raises an error naming that     *)
(* variable and no client exists.                                          *)
C8_FromEnvAsClaimed ==
    last.op = "create_snowflake_client_from_env" =>
        LET env == last.env
            missing == {f \in RequiredFields : ~IsSet(env, f)}
            given == {f \in {"warehouse", "role"} : IsSet(env, f)}
        IN  /\ missing = {} =>
                  /\ ~Raised
                  /\ client = "live"
                  /\ connection = NoHandle
                  /\ sessions = << >>
                  /\ trace = << >>
                  /\ connection_params =
                        [f \in RequiredFields \cup given |-> env[EnvVar[f]]]
            /\ Cardinality(missing) = 1 =>
                  /\ client = "none"
                  /\ \E f \in missing : last.error = EnvVar[f] \o " is not set"

(* C8, as amended: the same, a variable counting as set only when it is in *)
(* the environment with a non-empty value.                                 *)
C8_FromEnv ==
    last.op = "create_snowflake_client_from_env" =>
        LET env == last.env
            missing == {f \in RequiredFields : ~HasValue(env, f)}
            given == {f \in {"warehouse", "role"} : HasValue(env, f)}
        IN  /\ missing = {} =>
                  /\ ~Raised
                  /\ client = "live"
                  /\ connection = NoHandle
                  /\ sessions = << >>
                  /\ trace = << >>
                  /\ connection_params =
                        [f \in RequiredFields \cup given |-> env[EnvVar[f]]]
            /\ Cardinality(missing) = 1 =>
                  /\ client = "none"
                  /\ \E f \in missing : last.error = EnvVar[f] \o " is not set"

\* A client built from an environment with the three required variables and the
\* warehouse.
C8_Witness ==
    /\ last.op = "create_snowflake_client_from_env"
    /\ client = "live"
    /\ IsSet(last.env, "warehouse")
    /\ ~IsSet(last.env, "role")
    /\ connection_params =
          [account |-> "acme", user |-> "alice", password |-> "pw", warehouse |-> "WH"]

---------------------------------------------------------------------------
\* The optional arguments that were not left out.
Supplied(args) == {f \in OptionalFields : args[f] # None}

\* The optional arguments that were given a non-empty value.
SuppliedNonEmpty(args) == {f \in OptionalFields : Truthy(args[f])}

(* C9, as claimed: constructing the client calls no driver operation and   *)
(* leaves it Unconnected, and whichever optional fields were supplied,     *)
(* every connect passes the driver exactly account, user, password and the *)
(* supplied optional fields, with their values.                            *)
C9_ParamsAsClaimed ==
    /\ last.op = "__init__" =>
          /\ connection = NoHandle
          /\ sessions = << >>
          /\ trace = << >>
    /\ \A i \in Positions(trace, {"connect"}) :
          trace[i].args =
              [f \in RequiredFields \cup Supplied(constructed_with) |->
                  constructed_with[f]]

(* C9, as amended: the same, the optional fields passed being those        *)
(* supplied with a non-empty value; one left out or given as the empty     *)
(* string is absent.                                                       *)
C9_Params ==
    /\ last.op = "__init__" =>
          /\ connection = NoHandle
          /\ sessions = << >>
          /\ trace = << >>
    /\ \A i \in Positions(trace, {"connect"}) :
          trace[i].args =
              [f \in RequiredFields \cup SuppliedNonEmpty(constructed_with) |->
                  constructed_with[f]]

\* A connect of a client constructed with a warehouse and a role, without a
\* database or a schema.
C9_Witness ==
    /\ last.op = "connect"
    /\ ~Raised
    /\ constructed_with.warehouse = "WH"
    /\ constructed_with.database = None
    /\ constructed_with.schema = None
    /\ constructed_with.role = "ROLE"
    /\ sessions[connection].params =
          [account |-> "acme", user |-> "alice", password |-> "pw",
           warehouse |-> "WH", role |-> "ROLE"]

---------------------------------------------------------------------------
\* The errors of the driver calls one statement makes.
StatementErrors ==
    {DriverError("cursor"), DriverError("execute"), DriverError("fetchall"),
     DriverError("cursor.close")}

(* C10: when a statement of execute_query fails on a Connected client      *)
(* (the cursor call, execute, fetchall or the cursor's close raises), the  *)
(* client keeps the handle it had, which is not closed; connect is not     *)
(* called; the failing call is the last driver call of the operation, so   *)
(* nothing is retried and no later statement is sent; and the driver's     *)
(* error reaches the caller.                                               *)
C10_FailedStatementLeavesHandle ==
    (last.op \in QueryOps /\ last.pre # NoHandle /\ last.error \in StatementErrors) =>
        /\ connection = last.pre
        /\ sessions[last.pre].closes = 0
        /\ Positions(trace, {"connect", "close", "self.connect", "self.disconnect"}) = {}
        /\ ~trace[Len(trace)].ok
        /\ last.error = DriverError(trace[Len(trace)].call)
        /\ \A i \in 1 .. Len(trace) - 1 : trace[i].ok
        /\ IsPrefix(Statements(trace), ToSend)

\* USE DATABASE failed on a Connected client: it is the only statement sent.
C10_Witness ==
    /\ last.op = "execute_query"
    /\ last.pre # NoHandle
    /\ last.error = DriverError("execute")
    /\ last.init = SomeDict([database |-> "D", schema |-> "S"])
    /\ Statements(trace) = <<"USE DATABASE D">>
    /\ connection = last.pre

=============================================================================
